---- MODULE Spec2Model ----
(***************************************************************************)
(* rxvc: the command handlers of src/rxvc/cli.py.                          *)
(*                                                                         *)
(* One process run executes one command against the receiver `avr`.  A     *)
(* handler is one action; the device calls it makes are logged, in order,   *)
(* in `calls`, what it renders in `out`, and how the run ends in `exit`.    *)
(*                                                                         *)
(* Numbers: volumes are in tenths of a dB (-20.0 dB is -200), delays in     *)
(* tenths of a second.  An optional command-line parameter is a sequence:   *)
(* <<>> when click hands the handler None, <<x>> when the user gave x.      *)
(* Device getters answer with the device state; device setters answer with  *)
(* an outcome the device chooses: "ok", "reject" (rxv's ResponseException,  *)
(* carrying a message) or "error" (any other exception, e.g. the network).  *)
(***************************************************************************)
EXTENDS Integers, Sequences, FiniteSets

\* ---------------------------------------------------------------- bounds
\* device volumes lie VolSpan half-dB steps around -20.0 dB
VolSpan == 3
\* largest step count given to up / down
MaxPoints == 3
\* number of lines of the on-device menu
MaxLine == 3
\* depth of the on-device menu
MaxLayer == 2

\* ------------------------------------------------------- program constants
\* the 0.5 of `points * 0.5`, in tenths of a dB
Step == 5
\* click's default for the points argument of up / down
DefaultPoints == 2
\* the default of fade's delay parameter (0.5 s), in tenths of a second
DefaultDelay == 5

DB == 2 * Step
BaseVolume == -20 * DB

\* ------------------------------------------------------------ device model
Inputs == {"HDMI1", "NET RADIO"}
PlaybackInputs == {"NET RADIO"}
Zones == {"Main_Zone", "Zone_2"}
SurroundPrograms == {"Straight", "Sci-Fi"}
Scenes == {"Scene 1", "Scene 2"}
OutputNames == {"hdmi_out", "zoneB"}

DeviceVolumes == {BaseVolume + Step * k : k \in (0 - VolSpan)..VolSpan}

\* the receiver takes a volume that is on its 0.5 dB grid and in its range
DeviceAccepts(v) == v \in DeviceVolumes

Perms(n) == {f \in [1..n -> 1..n] : \A i, j \in 1..n : f[i] = f[j] => i = j}

\* texts of ResponseException raised by the device, as sequences of words
RejectMsgs == {<<"Volume", "Lvl", "out", "of", "range">>, <<"Mute", "failed">>,
               <<"Internal", "Error">>}
OkOutcome == [kind |-> "ok", msg |-> <<>>]
NoReply == [kind |-> "none", msg |-> <<>>]
Outcomes == {OkOutcome}
            \cup {[kind |-> "reject", msg |-> m] : m \in RejectMsgs}
            \cup {[kind |-> "error", msg |-> <<"Connection", "refused">>]}

\* ------------------------------------------------------ command-line inputs
OnOffArgs == {<<>>, <<"">>, <<"on">>, <<"off">>, <<"ON">>, <<"Off">>, <<"banana">>}
StateArgs == {"", "on", "off", "ON", "banana"}
InputArgs == {<<>>, <<"">>, <<"HDMI1">>, <<"NET RADIO">>, <<"hdmi1">>,
              <<" HDMI1">>, <<"bogus">>, <<"HDMI1", "bogus">>}
ZoneArgs == {<<>>, <<"">>, <<"Main_Zone">>, <<"Zone_2">>, <<"main_zone">>, <<"bogus">>}
SpArgs == {<<>>, <<"">>, <<"Straight">>, <<"Sci-Fi">>, <<"straight">>, <<"bogus">>}
SceneArgs == {<<>>, <<"">>, <<"Scene 1">>, <<"Scene 2">>, <<"Scene 1 ">>, <<"bogus">>}
OutputArgs == {"", "hdmi_out", "zoneB", "ZoneB", "bogus"}
VolArgs == {<<>>, <<0>>, <<Step>>, <<3 * DB>>, <<0 - Step>>, <<0 - 3 * Step>>,
            <<BaseVolume>>, <<BaseVolume + Step>>, <<BaseVolume - 3>>,
            <<BaseVolume - 7>>, <<0 - 100 * DB>>}
DelayArgs == {<<>>, <<0>>, <<DefaultDelay>>, <<2 * DB>>}
PointsArgs == {<<>>} \cup {<<n>> : n \in 0..MaxPoints}
PlaybackArgs == {<<>>, <<"">>, <<"play">>, <<"stop">>, <<"pause">>, <<"next">>,
                 <<"previous">>, <<"PLAY">>, <<"rewind">>}
MenuArgs == {<<>>, <<"">>, <<"up">>, <<"down">>, <<"left">>, <<"right">>,
             <<"select">>, <<"return">>, <<"Select">>, <<"enter">>}

\* --------------------------------------------------------- python helpers
\* truth value of an optional string: None and "" are false
TruthyStr(a) == a # <<>> /\ a[1] # ""

\* truth value of an optional float: None and 0.0 are false
TruthyNum(a) == a # <<>> /\ a[1] # 0

\* str.lower() on the tokens of the model
Lower(s) == CASE s = "ON" -> "on"
              [] s = "Off" -> "off"
              [] s = "PLAY" -> "play"
              [] s = "Select" -> "select"
              [] s = "ZoneB" -> "zoneb"
              [] s = "zoneB" -> "zoneb"
              [] s = "HDMI1" -> "hdmi1"
              [] s = " HDMI1" -> " hdmi1"
              [] s = "NET RADIO" -> "net radio"
              [] s = "Main_Zone" -> "main_zone"
              [] s = "Zone_2" -> "zone_2"
              [] s = "Straight" -> "straight"
              [] s = "Sci-Fi" -> "sci-fi"
              [] s = "Scene 1" -> "scene 1"
              [] s = "Scene 2" -> "scene 2"
              [] s = "Scene 1 " -> "scene 1 "
              [] OTHER -> s

\* int(vol): a float in tenths to whole dB, truncated towards zero
IntTrunc(v) == IF v >= 0 THEN v \div DB ELSE 0 - ((0 - v) \div DB)

\* `kw in str(e)`
Contains(msg, kw) == \E i \in 1..Len(msg) : msg[i] = kw

BoolStr(b) == IF b THEN "True" ELSE "False"
OnOffStr(b) == IF b THEN "on" ELSE "off"

\* ------------------------------------------------------- log constructors
Call(op, name, num, flag, delay) ==
    [op |-> op, name |-> name, num |-> num, flag |-> flag, delay |-> delay]
Get(op) == Call(op, "", 0, FALSE, 0)
SetName(op, name) == Call(op, name, 0, FALSE, 0)
SetFlag(op, flag) == Call(op, "", 0, flag, 0)
SetVolumeCall(v) == Call("setVolume", "", v, FALSE, 0)
FadeCall(target, delay) == Call("fadeVolume", "", target, FALSE, delay)
SetOutputCall(name, flag) == Call("setOutput", name, 0, flag, 0)

Line(stream, red, text, num, str, msg, aux) ==
    [stream |-> stream, red |-> red, text |-> text, num |-> num, str |-> str,
     msg |-> msg, aux |-> aux]
Say(text) == Line("stdout", FALSE, text, 0, "", <<>>, <<>>)
SayStr(text, s) == Line("stdout", FALSE, text, 0, s, <<>>, <<>>)
SayNum(text, n) == Line("stdout", FALSE, text, n, "", <<>>, <<>>)
Red(text) == Line("stdout", TRUE, text, 0, "", <<>>, <<>>)
RedErr(text) == Line("stderr", TRUE, text, 0, "", <<>>, <<>>)

SetterOps == {"setInput", "setOutput", "setVolume", "fadeVolume", "setMute",
              "setPower", "setZone", "setSurroundProgram", "setScene"}
TransportOps == {"play", "stop", "pause", "next", "previous"}
MenuOps == {"menu_up", "menu_down", "menu_left", "menu_right", "menu_sel",
            "menu_return"}

\* ------------------------------------------------------------------ texts
MsgNegativeFloat == "Volume must be specified as a negative float in steps of 0.5."
MsgFadeUsage == "Volume must be specified as a negative float in steps of 0.5. Optionally, a delay can be specified in seconds."
MsgIncrements == "Volume must be specified in -0.5 increments."
MsgOutOfRange == "New volume must be out of range."
MsgMuteFailed == "Mute command failed."
MsgStandby == "Something went wrong. Make sure the Network Standby setting of your receiver is on."
MsgOnOrOff == "State must be on or off"
MsgBadInput == "That's not a valid input. Run `rxvc inputs' toget a list of them."
MsgBadOutput == "That's not a valid output. Run `rxvc outputs' toget a list of them."
MsgBadSp == "That's not a valid surround program. Run `rxvc sps'to get a list of them."
MsgBadZone == "That's not a valid zone. Run `rxvc zones'to get a list of them."
MsgBadScene == "That's not a valid scene. Run `rxvc scenes'to get a list of them."
MsgNoPlayback == "Playback controls are not available for the active input."
MsgBadPlayback == "That's not a valid playback control command."
MsgNoMenu == "Menu is currently not available."
MsgBadMenu == "That's not a valid menu control command."

VARIABLES avr, before, pc, cmd, args, vol, num, reply, calls, out, exit

vars == <<avr, before, pc, cmd, args, vol, num, reply, calls, out, exit>>

\* ------------------------------------------------------------------- Init
BaseDevice ==
    [volume |-> BaseVolume, mute |-> FALSE, on |-> TRUE, input |-> "HDMI1",
     zone |-> "Main_Zone", sp |-> "Straight", scene |-> "Scene 1",
     outputs |-> [o \in OutputNames |-> FALSE],
     menuReady |-> TRUE, menuLayer |-> 1, menuOrder |-> [i \in 1..MaxLine |-> i]]

\* the states the receiver may be in when a run starts: the base state with
\* one group of its settings changed
DeviceStates ==
    {[BaseDevice EXCEPT !.volume = v] : v \in DeviceVolumes}
    \cup {[BaseDevice EXCEPT !.mute = m, !.on = p] : m, p \in BOOLEAN}
    \cup {[BaseDevice EXCEPT !.input = i, !.zone = z] : i \in Inputs, z \in Zones}
    \cup {[BaseDevice EXCEPT !.sp = s, !.scene = c] :
             s \in SurroundPrograms, c \in Scenes}
    \cup {[BaseDevice EXCEPT !.outputs = f] : f \in [OutputNames -> BOOLEAN]}
    \cup {[BaseDevice EXCEPT !.menuReady = r, !.menuLayer = l, !.menuOrder = f] :
             r \in BOOLEAN, l \in 1..MaxLayer, f \in Perms(MaxLine)}

Init ==
    /\ avr \in DeviceStates
    /\ before = avr
    /\ pc = "start"
    /\ cmd = ""
    /\ args = <<>>
    /\ vol = <<>>
    /\ num = <<>>
    /\ reply = NoReply
    /\ calls = <<>>
    /\ out = <<>>
    /\ exit = "running"

\* the operations that change the receiver
MutatingOps == SetterOps \cup TransportOps \cup MenuOps

\* a handler ran to its end: what it was given, what the device answered to
\* its setter (if it called one), what it did, rendered, and how it ended
Finish(c, a, v, n, o, dev, cs, os, ex) ==
    /\ pc = "start"
    /\ pc' = "done"
    /\ before' = avr
    /\ reply' = IF \E i \in 1..Len(cs) : cs[i].op \in MutatingOps THEN o ELSE NoReply
    /\ cmd' = c
    /\ args' = a
    /\ vol' = v
    /\ num' = n
    /\ avr' = dev
    /\ calls' = cs
    /\ out' = os
    /\ exit' = ex

\* how a run ends when a setter's failure is not caught
Propagate(o) == IF o.kind = "ok" THEN "ok" ELSE "crash"

\* the result of a handler: device afterwards, calls made, lines rendered, end
Result(dev, cs, os, ex) == [dev |-> dev, calls |-> cs, out |-> os, exit |-> ex]

Done(c, o, a, v, n, r) == Finish(c, a, v, n, o, r.dev, r.calls, r.out, r.exit)

\* ----------------------------------------------------------------- volume
\* the classifier looking for the keyword of another command
ClassifyVolume_Mute(msg) ==
    IF Contains(msg, "Mute") THEN <<RedErr(MsgIncrements)>> ELSE <<>>

\* `if "Volume" in str(e)`: the step-alignment message, or nothing
ClassifyVolume(msg) ==
    IF Contains(msg, "Volume") THEN <<RedErr(MsgIncrements)>> ELSE <<>>

\* `if float(vol) < 0`
IsNegative(v) == v < 0

volume(dev, v, o) ==
    IF TruthyNum(v)
    THEN IF IsNegative(v[1])
         THEN CASE o.kind = "ok" ->
                     Result([dev EXCEPT !.volume = v[1]],
                            <<SetVolumeCall(v[1]), Get("getVolume")>>,
                            <<SayNum("{}", v[1])>>, "ok")
                [] o.kind = "reject" ->
                     Result(dev, <<SetVolumeCall(v[1])>>, ClassifyVolume(o.msg), "ok")
                [] OTHER ->
                     Result(dev, <<SetVolumeCall(v[1])>>, <<>>, "crash")
         ELSE Result(dev, <<>>, <<Say(MsgNegativeFloat)>>, "ok")
    ELSE Result(dev, <<Get("getVolume")>>, <<SayNum("{}", dev.volume)>>, "ok")

VolumeCmd ==
    \E v \in VolArgs, o \in Outcomes :
        /\ IF TruthyNum(v) /\ IsNegative(v[1])
           THEN o.kind = "ok" => DeviceAccepts(v[1])
           ELSE o = OkOutcome
        /\ Done("volume", o, <<>>, v, <<>>, volume(avr, v, o))

\* ------------------------------------------------------------------- fade
fade(dev, v, delay, o) ==
    IF TruthyNum(v) /\ IsNegative(v[1])
    THEN LET announce == Line("stdout", FALSE, "Fading receiver volume to {0} with delay of {1} seconds",
                              v[1], "", <<>>, delay)
         IN  IF delay = <<>>
             THEN \* float(None) raises TypeError, which nothing catches
                  Result(dev, <<>>, <<announce>>, "crash")
             ELSE LET call == FadeCall(IntTrunc(v[1]), delay[1])
                  IN  CASE o.kind = "ok" ->
                             Result([dev EXCEPT !.volume = IntTrunc(v[1]) * DB],
                                    <<call>>, <<announce>>, "ok")
                        [] o.kind = "reject" ->
                             Result(dev, <<call>>,
                                    <<announce,
                                      Line("stdout", FALSE, "{}", 0, "", o.msg, <<>>)>>
                                    \o ClassifyVolume(o.msg), "ok")
                        [] OTHER ->
                             Result(dev, <<call>>, <<announce>>, "crash")
    ELSE Result(dev, <<>>, <<Say(MsgFadeUsage)>>, "ok")

FadeCmd ==
    \E v \in VolArgs, d \in DelayArgs, o \in Outcomes :
        /\ IF TruthyNum(v) /\ IsNegative(v[1]) /\ d # <<>>
           THEN o.kind = "ok" => DeviceAccepts(IntTrunc(v[1]) * DB)
           ELSE o = OkOutcome
        /\ Done("fade", o, <<>>, v, d, fade(avr, v, d, o))

\* -------------------------------------------------------------- up / down
\* click: `default=2` of the points argument
PointsParam(p) == IF p = <<>> THEN DefaultPoints ELSE p[1]

\* the adjustment without the factor 0.5
NewVol_WholeDb(current, points, operation) ==
    IF operation = "add" THEN current + points * DB ELSE current - points * DB

\* operation(current_vol, points * 0.5)
NewVol(current, points, operation) ==
    IF operation = "add" THEN current + points * Step ELSE current - points * Step

adjust_volume(dev, points, operation, o) ==
    LET new_vol == NewVol(dev.volume, points, operation)
        cs == <<Get("getVolume"), SetVolumeCall(new_vol)>>
    IN  CASE o.kind = "ok" ->
               Result([dev EXCEPT !.volume = new_vol], cs, <<SayNum("{}", new_vol)>>, "ok")
          [] o.kind = "reject" ->
               Result(dev, cs, <<Red(MsgOutOfRange)>>, "ok")
          [] OTHER ->
               Result(dev, cs, <<>>, "crash")

UpCmd ==
    \E p \in PointsArgs, o \in Outcomes :
        /\ o.kind = "ok" => DeviceAccepts(NewVol(avr.volume, PointsParam(p), "add"))
        /\ Done("up", o, <<>>, <<>>, p, adjust_volume(avr, PointsParam(p), "add", o))

DownCmd ==
    \E p \in PointsArgs, o \in Outcomes :
        /\ o.kind = "ok" => DeviceAccepts(NewVol(avr.volume, PointsParam(p), "sub"))
        /\ Done("down", o, <<>>, <<>>, p, adjust_volume(avr, PointsParam(p), "sub", o))

\* ----------------------------------------------------------- mute / power
\* `if "Mute" in str(e)`
ClassifyMute(msg) ==
    IF Contains(msg, "Mute") THEN <<RedErr(MsgMuteFailed)>> ELSE <<>>

mute(dev, a, o) ==
    IF TruthyStr(a)
    THEN LET m == Lower(a[1])
             cs == <<Get("getBasicStatus"), SetFlag("setMute", m = "on")>>
         IN  CASE o.kind = "ok" ->
                    Result([dev EXCEPT !.mute = (m = "on")], cs, <<SayStr("{}", m)>>, "ok")
               [] o.kind = "reject" ->
                    Result(dev, cs, ClassifyMute(o.msg), "ok")
               [] OTHER ->
                    Result(dev, cs, <<>>, "crash")
    ELSE Result(dev, <<Get("getBasicStatus")>>,
                <<SayStr("Muted: {muted}", BoolStr(dev.mute))>>, "ok")

MuteCmd ==
    \E a \in OnOffArgs, o \in Outcomes :
        /\ ~TruthyStr(a) => o = OkOutcome
        /\ Done("mute", o, a, <<>>, <<>>, mute(avr, a, o))

\* `except ResponseException:` in place of the bare except
PowerCatches_ResponseOnly(o) == o.kind = "reject"

\* the bare `except:` around the power assignment
PowerCatches(o) == o.kind # "ok"

\* the membership test made after lower-casing the token
IsOnOff_IgnoreCase(s) == Lower(s) \in {"on", "off"}

\* `state in ['on', 'off']`
IsOnOff(s) == s \in {"on", "off"}

power(dev, a, o) ==
    IF TruthyStr(a)
    THEN LET state == Lower(a[1])
         IN  IF IsOnOff(state)
             THEN LET cs == <<SetFlag("setPower", state = "on")>>
                  IN  IF o.kind = "ok"
                      THEN Result([dev EXCEPT !.on = (state = "on")], cs,
                                  <<SayStr("Turned the receiver {}", state)>>, "ok")
                      ELSE IF PowerCatches(o)
                           THEN Result(dev, cs, <<Red(MsgStandby)>>, "ok")
                           ELSE Result(dev, cs, <<>>, "crash")
             ELSE Result(dev, <<>>, <<Red(MsgOnOrOff)>>, "ok")
    ELSE Result(dev, <<Get("getPower")>>,
                <<SayStr("Power state is {}", OnOffStr(dev.on))>>, "ok")

PowerCmd ==
    \E a \in OnOffArgs, o \in Outcomes :
        /\ ~(TruthyStr(a) /\ IsOnOff(Lower(a[1]))) => o = OkOutcome
        /\ Done("power", o, a, <<>>, <<>>, power(avr, a, o))

\* ------------------------------------------- input / zone / sp / scene
\* membership that ignores case
IsValid_IgnoreCase(c, S) == \E s \in S : Lower(s) = Lower(c)

\* `candidate in avr.inputs()` (zones(), surround_programs(), scenes())
IsValid(c, S) == c \in S

\* the set-or-complain branch the four commands share
SetByName(dev, c, S, listOp, setOp, field, confirm, complaint, o) ==
    IF IsValid(c, S)
    THEN Result(IF o.kind = "ok" THEN [dev EXCEPT ![field] = c] ELSE dev,
                <<Get(listOp), SetName(setOp, c)>>,
                <<SayStr(confirm, c)>>, Propagate(o))
    ELSE Result(dev, <<Get(listOp)>>, <<Say(complaint)>>, "ok")

input(dev, a, o) ==
    IF Len(a) > 0
    THEN SetByName(dev, a[1], Inputs, "listInputs", "setInput", "input",
                   "Setting receiver input to {}", MsgBadInput, o)
    ELSE Result(dev, <<Get("getInput")>>, <<SayStr("Current input is", dev.input)>>, "ok")

sp(dev, a, o) ==
    IF TruthyStr(a)
    THEN SetByName(dev, a[1], SurroundPrograms, "listSurroundPrograms",
                   "setSurroundProgram", "sp",
                   "Setting receiver surround program to {}", MsgBadSp, o)
    ELSE Result(dev, <<Get("getSurroundProgram")>>, <<SayStr("{}", dev.sp)>>, "ok")

zone(dev, a, o) ==
    IF TruthyStr(a)
    THEN SetByName(dev, a[1], Zones, "listZones", "setZone", "zone",
                   "Setting receiver zone to {}", MsgBadZone, o)
    ELSE Result(dev, <<Get("getZone")>>, <<SayStr("{}", dev.zone)>>, "ok")

scene(dev, a, o) ==
    IF TruthyStr(a)
    THEN SetByName(dev, a[1], Scenes, "listScenes", "setScene", "scene",
                   "Setting receiver scene to {}", MsgBadScene, o)
    ELSE Result(dev, <<Get("getScene")>>, <<SayStr("{}", dev.scene)>>, "ok")

InputCmd ==
    \E a \in InputArgs, o \in Outcomes :
        /\ ~(Len(a) > 0 /\ IsValid(a[1], Inputs)) => o = OkOutcome
        /\ Done("input", o, a, <<>>, <<>>, input(avr, a, o))

SpCmd ==
    \E a \in SpArgs, o \in Outcomes :
        /\ ~(TruthyStr(a) /\ IsValid(a[1], SurroundPrograms)) => o = OkOutcome
        /\ Done("sp", o, a, <<>>, <<>>, sp(avr, a, o))

ZoneCmd ==
    \E a \in ZoneArgs, o \in Outcomes :
        /\ ~(TruthyStr(a) /\ IsValid(a[1], Zones)) => o = OkOutcome
        /\ Done("zone", o, a, <<>>, <<>>, zone(avr, a, o))

SceneCmd ==
    \E a \in SceneArgs, o \in Outcomes :
        /\ ~(TruthyStr(a) /\ IsValid(a[1], Scenes)) => o = OkOutcome
        /\ Done("scene", o, a, <<>>, <<>>, scene(avr, a, o))

\* ----------------------------------------------------------------- output
output(dev, name, state, o) ==
    IF IsOnOff(state)
    THEN LET outstate == (state = "on")
         IN  IF name \in DOMAIN dev.outputs
             THEN Result(IF o.kind = "ok"
                         THEN [dev EXCEPT !.outputs[name] = outstate] ELSE dev,
                         <<Get("getOutputs"), SetOutputCall(name, outstate)>>,
                         <<Line("stdout", FALSE, "Setting receiver output {0} to {1}",
                                0, name, <<state>>, <<>>)>>,
                         Propagate(o))
             ELSE Result(dev, <<Get("getOutputs")>>, <<Say(MsgBadOutput)>>, "ok")
    ELSE Result(dev, <<>>, <<Red(MsgOnOrOff)>>, "ok")

OutputCmd ==
    \E name \in OutputArgs, state \in StateArgs, o \in Outcomes :
        /\ ~(IsOnOff(state) /\ name \in DOMAIN avr.outputs) => o = OkOutcome
        /\ Done("output", o, <<name, state>>, <<>>, <<>>, output(avr, name, state, o))

\* --------------------------------------------------------------- playback
\* avr.is_playback_supported(): decided by the active input
IsPlaybackSupported(dev) == dev.input \in PlaybackInputs

\* the gate left out
PlaybackBlocked_Never(dev) == FALSE

\* `if not ctx.obj['avr'].is_playback_supported()`
PlaybackBlocked(dev) == ~IsPlaybackSupported(dev)

playback(dev, a, o) ==
    IF PlaybackBlocked(dev)
    THEN Result(dev, <<Get("isPlaybackSupported")>>, <<Say(MsgNoPlayback)>>, "ok")
    ELSE IF TruthyStr(a)
         THEN IF a[1] \in TransportOps
              THEN Result(dev, <<Get("isPlaybackSupported"), Get(a[1])>>,
                          <<SayStr("Sending command {} to receiver", a[1])>>,
                          Propagate(o))
              ELSE Result(dev, <<Get("isPlaybackSupported")>>,
                          <<Say(MsgBadPlayback)>>, "ok")
         ELSE Result(dev, <<Get("isPlaybackSupported"), Get("getPlayStatus")>>,
                     <<Say("Playing: {playing} Artist: {artist} Album: {album} Track: {song} Station: {station}")>>,
                     "ok")

PlaybackCmd ==
    \E a \in PlaybackArgs, o \in Outcomes :
        /\ ~(~PlaybackBlocked(avr) /\ TruthyStr(a) /\ a[1] \in TransportOps)
              => o = OkOutcome
        /\ Done("playback", o, a, <<>>, <<>>, playback(avr, a, o))

\* ------------------------------------------------------------------- menu
\* `if not ctx.obj['avr'].menu_status().ready`
MenuBlocked(dev) == ~dev.menuReady

\* the chain of `if command == ...: avr.menu_...()`
MenuOpFor(token) ==
    CASE token = "up" -> "menu_up"
      [] token = "down" -> "menu_down"
      [] token = "left" -> "menu_left"
      [] token = "right" -> "menu_right"
      [] token = "select" -> "menu_sel"
      [] token = "return" -> "menu_return"

MenuTokens == {"up", "down", "left", "right", "select", "return"}

\* the receiver's menu after a navigation operation it accepted: select goes
\* a layer down and return a layer up (the cursor line is never rendered by
\* the command and is left out)
MenuAfter(dev, op) ==
    CASE op = "menu_sel" ->
           [dev EXCEPT !.menuLayer = IF @ < MaxLayer THEN @ + 1 ELSE @]
      [] op = "menu_return" ->
           [dev EXCEPT !.menuLayer = IF @ > 1 THEN @ - 1 ELSE @]
      [] OTHER -> dev

RECURSIVE Insert(_, _)
Insert(x, s) ==
    IF s = <<>> THEN <<x>>
    ELSE IF x <= Head(s) THEN <<x>> \o s
    ELSE <<Head(s)>> \o Insert(x, Tail(s))

RECURSIVE SortSeq(_)
SortSeq(s) == IF s = <<>> THEN <<>> ELSE Insert(Head(s), SortSeq(Tail(s)))

\* the items in the order the mapping holds them
SortedItems_Unsorted(order) == order

\* sorted(status.current_list.items()): the positions in ascending order;
\* `order` is the order in which the mapping holds its positions
SortedItems(order) == SortSeq(order)

\* the status block and one line per entry of the menu read from `dev`
RenderMenu(dev) ==
    LET items == SortedItems(dev.menuOrder)
    IN  <<Line("stdout", FALSE, "Ready: {ready} Layer: {layer} Name: {name} Total lines: {max_line}",
               dev.menuLayer, BoolStr(dev.menuReady), <<>>, <<Len(dev.menuOrder)>>)>>
        \o [i \in 1..Len(items) |-> SayNum("*  {}", items[i])]

menu(dev, a, o) ==
    IF MenuBlocked(dev)
    THEN Result(dev, <<Get("getMenuStatus")>>, <<Say(MsgNoMenu)>>, "ok")
    ELSE IF TruthyStr(a)
         THEN IF a[1] \in MenuTokens
              THEN LET op == MenuOpFor(a[1])
                       sent == SayStr("Sending menu command {} to receiver", a[1])
                   IN  IF o.kind = "ok"
                       THEN LET after == MenuAfter(dev, op)
                            IN  Result(after,
                                       <<Get("getMenuStatus"), Get(op), Get("getMenuStatus")>>,
                                       <<sent>> \o RenderMenu(after), "ok")
                       ELSE Result(dev, <<Get("getMenuStatus"), Get(op)>>, <<sent>>, "crash")
              ELSE Result(dev, <<Get("getMenuStatus")>>, <<Say(MsgBadMenu)>>, "ok")
         ELSE Result(dev, <<Get("getMenuStatus"), Get("getMenuStatus")>>,
                     RenderMenu(dev), "ok")

MenuCmd ==
    \E a \in MenuArgs, o \in Outcomes :
        /\ ~(~MenuBlocked(avr) /\ TruthyStr(a) /\ a[1] \in MenuTokens) => o = OkOutcome
        /\ Done("menu", o, a, <<>>, <<>>, menu(avr, a, o))

Next ==
    \/ VolumeCmd
    \/ FadeCmd
    \/ UpCmd
    \/ DownCmd
    \/ MuteCmd
    \/ PowerCmd
    \/ InputCmd
    \/ SpCmd
    \/ ZoneCmd
    \/ SceneCmd
    \/ OutputCmd
    \/ PlaybackCmd
    \/ MenuCmd

Spec == Init /\ [][Next]_vars

\* ================================================================ claims
Ran(c) == pc = "done" /\ cmd = c

CallsOf(ops) == {i \in 1..Len(calls) : calls[i].op \in ops}

\* what precedes the mutating call of a command, in the claim's terms: a
\* membership or format validation of its argument, or an availability gate.
\* For up / down this is click's conversion of the step count to an integer.
LocallyValidated ==
    CASE cmd = "input" -> args[1] \in Inputs
      [] cmd = "zone" -> args[1] \in Zones
      [] cmd = "sp" -> args[1] \in SurroundPrograms
      [] cmd = "scene" -> args[1] \in Scenes
      [] cmd = "output" -> args[2] \in {"on", "off"} /\ args[1] \in OutputNames
      [] cmd = "volume" -> vol # <<>> /\ vol[1] < 0
      [] cmd = "fade" -> vol # <<>> /\ vol[1] < 0
      [] cmd = "mute" -> args # <<>> /\ Lower(args[1]) \in {"on", "off"}
      [] cmd = "power" -> args # <<>> /\ Lower(args[1]) \in {"on", "off"}
      [] cmd = "up" -> TRUE
      [] cmd = "down" -> TRUE
      [] cmd = "playback" -> IsPlaybackSupported(before) /\ args[1] \in TransportOps
      [] cmd = "menu" -> before.menuReady /\ args[1] \in MenuTokens
      [] OTHER -> FALSE

\* C1: a device setter, transport op or menu op is invoked only after the
\* argument passed a local validation or an availability gate passed; no
\* setter is invoked for an argument that is not a valid token or member
\* (such as mute with a token other than on / off).
C1_SetterOnlyAfterValidation ==
    pc = "done" /\ CallsOf(MutatingOps) # {} => LocallyValidated

\* C2: volume -v v_req: for v_req >= 0, 0 included, setVolume is never called
\* and the negative-float message is rendered; for v_req < 0 setVolume is
\* called exactly once with v_req unchanged.
C2_AbsoluteVolume ==
    Ran("volume") /\ vol # <<>> =>
        IF vol[1] >= 0
        THEN CallsOf({"setVolume"}) = {} /\ out = <<Say(MsgNegativeFloat)>>
        ELSE /\ Cardinality(CallsOf({"setVolume"})) = 1
             /\ calls[1] = SetVolumeCall(vol[1])

\* C3: fade -v v_req [delay]: for v_req >= 0 or absent fadeVolume is never
\* called and the usage message is rendered; for v_req < 0 fadeVolume is
\* called exactly once with the integer truncation of v_req and the given
\* delay, or 0.5 when the delay is omitted.
C3_Fade ==
    Ran("fade") =>
        IF vol = <<>> \/ vol[1] >= 0
        THEN CallsOf({"fadeVolume"}) = {} /\ out = <<Say(MsgFadeUsage)>>
        ELSE LET target == IF vol[1] % DB = 0 THEN vol[1] \div DB
                           ELSE (vol[1] \div DB) + 1
                 delay == IF num = <<>> THEN DefaultDelay ELSE num[1]
             IN  /\ Cardinality(CallsOf({"fadeVolume"})) = 1
                 /\ calls = <<FadeCall(target, delay)>>

\* C4: up [n] / down [n] with current volume v and n >= 0 (2 when omitted):
\* v is read once, then setVolume is called exactly once with v + 0.5 n (up)
\* or v - 0.5 n (down), whatever the value; when the device accepts, the
\* computed value is printed, when it rejects, the out-of-range error is
\* rendered and no second setVolume is made.
C4_RelativeVolume ==
    pc = "done" /\ cmd \in {"up", "down"} =>
        LET n == IF num = <<>> THEN 2 ELSE num[1]
            target == IF cmd = "up" THEN before.volume + 5 * n
                      ELSE before.volume - 5 * n
        IN  /\ calls = <<Get("getVolume"), SetVolumeCall(target)>>
            /\ reply.kind = "ok" => out = <<SayNum("{}", target)>> /\ exit = "ok"
            /\ reply.kind = "reject" => out = <<Red(MsgOutOfRange)>> /\ exit = "ok"

\* scenario 2: up with no argument at -20.0 sends -19.0 and prints -19.0
C4_Witness ==
    /\ Ran("up") /\ num = <<>> /\ before.volume = -200
    /\ calls[2] = SetVolumeCall(-190)
    /\ out = <<SayNum("{}", -190)>>

\* C5: with playback unsupported for the active input, playback with any
\* argument renders the unavailability message, reads no playback status
\* and invokes no transport operation; with the menu not ready, menu with
\* any argument renders its unavailability message and invokes no menu
\* navigation operation.
C5_AvailabilityGates ==
    /\ Ran("playback") /\ before.input \notin PlaybackInputs =>
          /\ out = <<Say(MsgNoPlayback)>>
          /\ CallsOf(TransportOps \cup {"getPlayStatus"}) = {}
          /\ exit = "ok"
    /\ Ran("menu") /\ ~before.menuReady =>
          /\ out = <<Say(MsgNoMenu)>>
          /\ CallsOf(MenuOps) = {}
          /\ exit = "ok"

C5_Witness ==
    /\ Ran("playback") /\ args = <<"play">> /\ before.input = "HDMI1"
    /\ out = <<Say(MsgNoPlayback)>>

\* C6: on the absolute-set path and on the fade path, a device rejection
\* whose message contains "Volume" renders the step-alignment message on
\* the error stream, and the run does not crash.
C6_VolumeClassified ==
    pc = "done" /\ cmd \in {"volume", "fade"} /\ reply.kind = "reject"
      /\ (\E i \in 1..Len(reply.msg) : reply.msg[i] = "Volume") =>
        /\ out # <<>>
        /\ out[Len(out)] = RedErr(MsgIncrements)
        /\ exit = "ok"

C6_Witness ==
    /\ Ran("fade") /\ reply.kind = "reject" /\ reply.msg[1] = "Volume"
    /\ out[Len(out)].stream = "stderr"

\* the valid set, the setter, the getter, the complaint of a name command
NameSet == CASE cmd = "input" -> Inputs [] cmd = "zone" -> Zones
             [] cmd = "sp" -> SurroundPrograms [] cmd = "scene" -> Scenes
NameSetter == CASE cmd = "input" -> "setInput" [] cmd = "zone" -> "setZone"
                [] cmd = "sp" -> "setSurroundProgram" [] cmd = "scene" -> "setScene"
NameGetter == CASE cmd = "input" -> "getInput" [] cmd = "zone" -> "getZone"
                [] cmd = "sp" -> "getSurroundProgram" [] cmd = "scene" -> "getScene"
NameComplaint == CASE cmd = "input" -> MsgBadInput [] cmd = "zone" -> MsgBadZone
                   [] cmd = "sp" -> MsgBadSp [] cmd = "scene" -> MsgBadScene
NameCurrent == CASE cmd = "input" -> before.input [] cmd = "zone" -> before.zone
                 [] cmd = "sp" -> before.sp [] cmd = "scene" -> before.scene

\* the candidate was handled as the claim says a supplied candidate is
NameHandledAsCandidate ==
    LET c == args[1]
        sets == CallsOf(SetterOps)
    IN  /\ c \in NameSet <=> sets # {}
        /\ c \in NameSet =>
              Cardinality(sets) = 1
              /\ \A i \in sets : calls[i] = SetName(NameSetter, c)
        /\ c \notin NameSet => out = <<Say(NameComplaint)>>

\* the current value was read and rendered and no setter was called
NameHandledAsQuery ==
    /\ calls = <<Get(NameGetter)>>
    /\ Len(out) = 1 /\ out[1].str = NameCurrent
    /\ exit = "ok"

\* C7 as stated: for every supplied candidate c and valid set S the setter
\* is called, once and with c, iff c is in S; otherwise the not-valid
\* message is rendered and no setter is called; with no argument the
\* current value is read and rendered.
C7_Original ==
    pc = "done" /\ cmd \in {"input", "zone", "sp", "scene"} =>
        IF args = <<>> THEN NameHandledAsQuery ELSE NameHandledAsCandidate

\* C7: as C7_Original for every non-empty candidate, and for the empty
\* string given to input; the empty string given to zone, sp or scene is
\* handled as no argument: the current value is read and rendered.
C7_NameSetters ==
    pc = "done" /\ cmd \in {"input", "zone", "sp", "scene"} =>
        IF args = <<>> \/ (cmd # "input" /\ args[1] = "")
        THEN NameHandledAsQuery
        ELSE NameHandledAsCandidate

C7_Witness ==
    /\ Ran("zone") /\ args = <<"main_zone">>
    /\ out = <<Say(MsgBadZone)>> /\ CallsOf(SetterOps) = {}

\* C8: output <name> <state>: setOutput is called only when state is exactly
\* "on" or "off" and name is a key of the outputs mapping, then exactly once
\* with (name, state = "on"); any other state renders the red on-or-off
\* message and makes no device call; a valid state with an unknown name
\* renders the plain not-valid message and calls no setOutput.
C8_Output ==
    Ran("output") =>
        LET name == args[1]
            state == args[2]
            sets == CallsOf({"setOutput"})
        IN  IF state \in {"on", "off"}
            THEN IF name \in DOMAIN before.outputs
                 THEN /\ Cardinality(sets) = 1
                      /\ \A i \in sets : calls[i] = SetOutputCall(name, state = "on")
                 ELSE sets = {} /\ out = <<Say(MsgBadOutput)>> /\ ~out[1].red
            ELSE calls = <<>> /\ out = <<Red(MsgOnOrOff)>> /\ out[1].red

\* scenario 3: output zoneB on enables zoneB
C8_Witness ==
    /\ Ran("output") /\ args = <<"zoneB", "on">>
    /\ calls[Len(calls)] = SetOutputCall("zoneB", TRUE)
    /\ avr.outputs["zoneB"]

\* the navigation operation a recognized menu token stands for
NavOp == [up |-> "menu_up", down |-> "menu_down", left |-> "menu_left",
          right |-> "menu_right", select |-> "menu_sel", return |-> "menu_return"]

\* the status was fetched after the calls before it and rendered from the
\* receiver's state at that moment, entries in ascending position order
FreshStatusRendered ==
    /\ calls[Len(calls)] = Get("getMenuStatus")
    /\ Len(out) = 2 + MaxLine
    /\ out[2].num = avr.menuLayer
    /\ \A i \in 1..MaxLine : out[2 + i].num = i

MenuRecognized ==
    /\ calls[1] = Get("getMenuStatus")
    /\ CallsOf(MenuOps) = {2}
    /\ calls[2] = Get(NavOp[args[1]])

MenuUnrecognized ==
    /\ calls = <<Get("getMenuStatus")>>
    /\ out = <<Say(MsgBadMenu)>>

\* C9 as stated: with the menu ready, a recognized token causes exactly one
\* navigation operation, the matching one, after the gate's status read and
\* followed by a fresh status fetch whose entries are rendered in ascending
\* position order; an unrecognized token causes no navigation operation,
\* renders the invalid-command message and fetches no second status.
C9_Original ==
    Ran("menu") /\ before.menuReady /\ args # <<>> =>
        IF args[1] \in DOMAIN NavOp
        THEN MenuRecognized /\ Len(calls) = 3 /\ FreshStatusRendered
        ELSE MenuUnrecognized

\* C9: as C9_Original, except that the fetch and the rendering follow the
\* navigation operation only when the receiver accepted it (when it fails,
\* the run ends at the operation), and that the empty string is handled as
\* no token: no navigation, the status is fetched again and rendered.
C9_Menu ==
    Ran("menu") /\ before.menuReady /\ args # <<>> =>
        CASE args[1] \in DOMAIN NavOp ->
               /\ MenuRecognized
               /\ IF reply.kind = "ok"
                  THEN Len(calls) = 3 /\ FreshStatusRendered /\ exit = "ok"
                  ELSE Len(calls) = 2 /\ exit = "crash"
          [] args[1] = "" ->
               /\ calls = <<Get("getMenuStatus"), Get("getMenuStatus")>>
               /\ Len(out) = 1 + MaxLine
               /\ \A i \in 1..MaxLine : out[1 + i].num = i
          [] OTHER -> MenuUnrecognized

C9_Witness ==
    /\ Ran("menu") /\ args = <<"select">> /\ reply.kind = "ok"
    /\ before.menuOrder[1] > before.menuOrder[2]
    /\ before.menuLayer = 1 /\ out[2].num = 2
    /\ Len(calls) = 3

NoKeyword(kw) == reply.kind = "reject" /\ \A i \in 1..Len(reply.msg) : reply.msg[i] # kw

\* the parts of C10 on which the claim and the code agree
C10_Common ==
    /\ Ran("power") /\ reply.kind \in {"reject", "error"} =>
          out = <<Red(MsgStandby)>> /\ exit = "ok"
    /\ Ran("volume") /\ NoKeyword("Volume") => out = <<>> /\ exit = "ok"
    /\ Ran("mute") /\ NoKeyword("Mute") => out = <<>> /\ exit = "ok"
    /\ pc = "done" /\ reply.kind = "reject"
         /\ cmd \in {"input", "zone", "sp", "scene", "output", "playback", "menu"}
         => exit = "crash"

\* the lines of `out` that report the device's failure
FailureLines == {i \in 1..Len(out) : out[i].msg = reply.msg \/ out[i].red}

\* C10 as stated: power catches every failure of setPower and renders the
\* generic message; at absolute volume set, fade and mute a rejection
\* without the keyword is absorbed with no output for the failure and the
\* command ends normally; at input, zone, sp, scene, output, transport and
\* menu operations a rejection propagates and terminates the run.
C10_Original ==
    /\ C10_Common
    /\ Ran("fade") /\ NoKeyword("Volume") => FailureLines = {} /\ exit = "ok"

\* C10: as C10_Original, except that fade prints the text of the rejection
\* on standard output (and nothing else for it) before ending normally.
C10_Rejections ==
    /\ C10_Common
    /\ Ran("fade") /\ NoKeyword("Volume") =>
          /\ Len(out) = 2
          /\ out[2] = Line("stdout", FALSE, "{}", 0, "", reply.msg, <<>>)
          /\ exit = "ok"

C10_Witness ==
    /\ Ran("power") /\ reply.kind = "error"
    /\ out = <<Red(MsgStandby)>>
====
